---- MODULE Spec2Model ----
(***************************************************************************)
(* A model of grocy-importer's purchase import (src/grocy_importer.py):    *)
(* the aggregator simplify, the unit converter convert_unit, the handler   *)
(* Store.import_purchase with the GrocyApi calls it makes, the writing     *)
(* operations of GrocyApi, the receipt parsers Ebon._get_purchases,        *)
(* Rewe.get_purchase and Netto.get_purchase, get_shopping_location_id, the *)
(* chore commands chore_did_cmd and chore_schedule_cmd and                 *)
(* todotxt_chore_pull.                                                     *)
(*                                                                         *)
(* Product names are abstracted to their rank in Python's string order     *)
(* (1 < 2 < ...), prices to integer cents, None to the number 0.           *)
(***************************************************************************)
EXTENDS Integers, Sequences, FiniteSets, TLC

VARIABLES
    pc,                \* position in the code
    items,             \* simplify: the argument `items`
    groceries,         \* simplify's return value / import_purchase: `groceries`
    convertions,       \* convert_unit: `convertions` (bound into `factor`)
    from_qu_id,        \* convert_unit: argument
    to_qu_id,          \* convert_unit: argument
    product_id,        \* convert_unit: argument
    factor,            \* convert_unit: return value or raised UserError
    dry_run,           \* GrocyApi.dry_run (--dry-run)
    config_location,   \* config[store]['shopping_location_id'], None if absent
    barcodes,          \* import_purchase: `barcodes`, the fetched alias map
    shopping_location, \* import_purchase: `shopping_location`
    products,          \* import_purchase: `products`, by id
    grocy_purchases,   \* import_purchase: the prepared grocy.purchase calls
    posts,             \* POST /stock/products/<id>/add requests sent so far
    stock,             \* purchases the catalog has recorded
    added,             \* items reported with 'Added ...'
    prompts,           \* number of input('...') prompts answered
    fetches,           \* number of get_all_product_barcodes calls answered
    calls,             \* the requests sent to the catalog so far, in order
    ops,               \* the GrocyApi operations called so far, in order
    ebon,              \* Ebon._get_purchases: the lines of the text `ebon`
    orders,            \* Rewe.get_purchase: ReweJson.orders.orders
    order,             \* Rewe.get_purchase: args.order
    file,              \* the receipt file of the import when it is given
    catalog,           \* what the catalog holds while no other client edits it
    recorded,          \* what the catalog had recorded when the run started
    cells,             \* Netto.get_purchase: the cell texts `purchase`
    args_store,        \* get_shopping_location_id: `store` (args.store)
    locations,         \* grocy.get_all_shopping_locations()
    chore_args,        \* chore did / chore schedule: `args`
    chore_data,        \* the chores as the catalog answers for them
    todo,              \* the rest of the list the running loop goes through
    chore,             \* chore_did_cmd: the loop variable `chore`
    sched_at,          \* chore_schedule_cmd: `at`
    confirmed,         \* the chores human_agrees answered True for
    chore_calls,       \* the did_chore and schedule_chore calls made
    todo_file,         \* todotxt pull: the lines of the file TODO_FILE
    backup,            \* todotxt pull: the file TODO_FILE + ".bak"
    new_content,       \* todotxt_chore_pull: `new_content`
    error              \* the exception that ended the run, None if none

pureVars == <<items, convertions, from_qu_id, to_qu_id, product_id, factor>>

importVars == <<dry_run, config_location, barcodes, shopping_location,
                products, grocy_purchases, posts, stock, added, prompts,
                fetches, calls, error>>

apiVars == <<ops>>

receiptVars == <<ebon, orders, order>>

runVars == <<file, catalog, recorded>>

nettoVars == <<cells>>

locationVars == <<args_store, locations>>

choreVars == <<chore_args, chore_data, todo, chore, sched_at, confirmed,
               chore_calls>>

pullVars == <<todo_file, backup, new_content>>

moreVars == <<nettoVars, locationVars, choreVars, pullVars>>

quietVars == <<receiptVars, runVars, moreVars>>

restVars == <<apiVars, quietVars>>

vars == <<pc, groceries, pureVars, importVars, restVars>>

----------------------------------------------------------------------------
(* Bounds on the lengths and counters of the model *)

MaxLen     == 3     \* longest receipt handed to simplify
MaxConv    == 2     \* longest conversion list handed to convert_unit
MaxItems   == 3     \* longest receipt handed to import_purchase
MaxPrompts == 1     \* prompts the operator answers during one import

(* The values the inputs are drawn from *)

None       == 0             \* Python's None (ids start at 1)

Names      == {1, 2}        \* two product names, in string order
Amounts    == {0, 1, 2}
Prices     == {-1, 0, 1}    \* a voucher, a free item, a priced item (cents)
Units      == {1, 2}        \* quantity unit ids
ProductIds == {1, 2}
Factors    == {2, 3}
LocationIds == {1}

SeqsUpTo(S, n) == UNION {[1..k -> S] : k \in 0..n}

----------------------------------------------------------------------------
(* Purchase and simplify *)

Purchase(amount, price, name) ==
    [amount |-> amount, price |-> price, name |-> name]

PurchaseLines == {Purchase(a, p, n) : a \in Amounts, p \in Prices, n \in Names}

RECURSIVE SumAmount(_)
SumAmount(g) ==
    IF g = <<>> THEN 0 ELSE Head(g).amount + SumAmount(Tail(g))

\* insert p behind every element whose key is <= p's key (stable)
RECURSIVE InsertByName(_, _)
InsertByName(p, s) ==
    IF s = <<>> THEN <<p>>
    ELSE IF p.name < Head(s).name THEN <<p>> \o s
    ELSE <<Head(s)>> \o InsertByName(p, Tail(s))

\* sorted(items, key=lambda p: p.name): a stable sort on the name alone
RECURSIVE sorted_by_name(_)
sorted_by_name(s) ==
    IF s = <<>> THEN <<>>
    ELSE InsertByName(s[Len(s)], sorted_by_name(SubSeq(s, 1, Len(s) - 1)))

GroupKey(p) == <<p.name, p.price>>

\* itertools.groupby(s, key): maximal runs of CONSECUTIVE elements with equal key
RECURSIVE groupby(_)
groupby(s) ==
    IF s = <<>> THEN <<>>
    ELSE LET rest == groupby(Tail(s))
         IN  IF rest # <<>> /\ GroupKey(Head(rest)[1]) = GroupKey(Head(s))
             THEN <<(<<Head(s)>> \o Head(rest))>> \o Tail(rest)
             ELSE <<(<<Head(s)>>)>> \o rest

\* a slip that also drops the groups priced exactly 0
KeepGroup_positive(g) == g[1].price > 0

KeepGroup(g) == g[1].price >= 0

RECURSIVE SumPrice(_)
SumPrice(g) ==
    IF g = <<>> THEN 0 ELSE Head(g).price + SumPrice(Tail(g))

\* a slip that re-sums the price over the merged lines
MergeGroup_summed(g) == Purchase(SumAmount(g), SumPrice(g), g[1].name)

MergeGroup(g) == Purchase(SumAmount(g), g[1].price, g[1].name)

RECURSIVE MapMerge(_)
MapMerge(gs) ==
    IF gs = <<>> THEN <<>>
    ELSE (IF KeepGroup(Head(gs)) THEN <<MergeGroup(Head(gs))>> ELSE <<>>)
         \o MapMerge(Tail(gs))

\* a slip that groups the lines in receipt order, without sorting
simplify_unsorted(its) == MapMerge(groupby(its))

simplify(its) == MapMerge(groupby(sorted_by_name(its)))

----------------------------------------------------------------------------
(* convert_unit *)

Convertion(f, t, p, x) ==
    [from_qu_id |-> f, to_qu_id |-> t, product_id |-> p, factor |-> x]

Convertions ==
    {Convertion(f, t, p, x) : f \in Units, t \in Units,
                              p \in {None} \cup ProductIds, x \in Factors}

UserError(f, t, p) ==
    [error |-> "UserError", from_qu_id |-> f, to_qu_id |-> t, product_id |-> p]

\* a call either returns a value or raises
Returns(x) == [value |-> x]

IsError(r) == "error" \in DOMAIN r

\* the list comprehension: entries for the pair, generic or for the product
Matches(c, f, t, p) ==
    /\ c.from_qu_id = f
    /\ c.to_qu_id = t
    /\ c.product_id \in {None, p}

Candidates(cs, f, t, p) == SelectSeq(cs, LAMBDA c : Matches(c, f, t, p))

\* a slip that leaves the candidates in catalog order
sorted_by_is_none_unsorted(cs) == cs

\* sorted(..., key=lambda o: o['product_id'] is None): False sorts before
\* True and the sort is stable
sorted_by_is_none(cs) ==
    SelectSeq(cs, LAMBDA c : c.product_id # None)
    \o SelectSeq(cs, LAMBDA c : c.product_id = None)

\* a slip that looks equal units up in the catalog like any other pair
convert_unit_lookup(cs, f, t, p) ==
    LET found == sorted_by_is_none(Candidates(cs, f, t, p))
    IN  IF found = <<>> THEN UserError(f, t, p)
        ELSE Returns(found[1].factor)

\* a slip that assumes a factor of 1 when nothing matches
convert_unit_default(cs, f, t, p) ==
    IF f = t THEN Returns(1)
    ELSE LET found == sorted_by_is_none(Candidates(cs, f, t, p))
         IN  IF found = <<>> THEN Returns(1)
             ELSE Returns(found[1].factor)

convert_unit(cs, f, t, p) ==
    IF f = t THEN Returns(1)
    ELSE LET found == sorted_by_is_none(Candidates(cs, f, t, p))
         IN  IF found = <<>> THEN UserError(f, t, p)
             ELSE Returns(found[1].factor)

----------------------------------------------------------------------------
(* Specification of the pure function simplify *)

ConvertIdle ==
    /\ convertions = <<>>
    /\ from_qu_id = 0
    /\ to_qu_id = 0
    /\ product_id = None
    /\ factor = Returns(0)

\* any receipt file may be handed to the import
AnyFile == [fixed |-> FALSE]

\* other clients edit the catalog at any time: a GET may answer anything
AnyCatalog == [fixed |-> FALSE]

RunIdle ==
    /\ file = AnyFile
    /\ catalog = AnyCatalog
    /\ recorded = <<>>

NettoIdle == cells = <<>>

LocationIdle == args_store = <<>> /\ locations = <<>>

\* a local variable no statement has assigned yet
Unbound == -1

ChoreIdle ==
    /\ chore_args = [ids |-> <<>>]
    /\ chore_data = [overdue |-> <<>>, scheduled |-> <<>>]
    /\ todo = <<>>
    /\ chore = Unbound
    /\ sched_at = 0
    /\ confirmed = {}
    /\ chore_calls = <<>>

\* a file that does not exist
NoFile == [exists |-> FALSE]

PullIdle ==
    /\ todo_file = <<>>
    /\ backup = NoFile
    /\ new_content = <<>>

MoreIdle == NettoIdle /\ LocationIdle /\ ChoreIdle /\ PullIdle

SideIdle == RunIdle /\ MoreIdle

\* no write operation called, no receipt parsed
OthersIdle ==
    /\ ops = <<>>
    /\ ebon = <<>>
    /\ orders = <<>>
    /\ order = 1

RestIdle ==
    /\ SideIdle
    /\ OthersIdle

\* import_purchase has not run
ImportQuiet ==
    /\ dry_run = FALSE
    /\ config_location = None
    /\ barcodes = <<>>
    /\ shopping_location = None
    /\ products = <<>>
    /\ grocy_purchases = <<>>
    /\ posts = <<>>
    /\ stock = <<>>
    /\ added = <<>>
    /\ prompts = 0
    /\ fetches = 0
    /\ calls = <<>>
    /\ error = [error |-> "None"]

ImportIdle == RestIdle /\ ImportQuiet

InitSimplify ==
    /\ pc = "simplify"
    /\ items \in SeqsUpTo(PurchaseLines, MaxLen)
    /\ groceries = <<>>
    /\ ConvertIdle
    /\ ImportIdle

CallSimplify ==
    /\ pc = "simplify"
    /\ groceries' = simplify(items)
    /\ pc' = "simplified"
    /\ UNCHANGED <<items, convertions, from_qu_id, to_qu_id, product_id,
                   factor, importVars, restVars>>

NextSimplify == CallSimplify

SpecSimplify == InitSimplify /\ [][NextSimplify]_vars

----------------------------------------------------------------------------
(* Specification of the pure function convert_unit *)

InitConvert ==
    /\ pc = "convert"
    /\ items = <<>>
    /\ groceries = <<>>
    /\ convertions \in SeqsUpTo(Convertions, MaxConv)
    /\ from_qu_id \in Units
    /\ to_qu_id \in Units
    /\ product_id \in {None} \cup ProductIds
    /\ factor = Returns(0)
    /\ ImportIdle

CallConvert ==
    /\ pc = "convert"
    /\ factor' = convert_unit(convertions, from_qu_id, to_qu_id, product_id)
    /\ pc' = "converted"
    /\ UNCHANGED <<items, groceries, convertions, from_qu_id, to_qu_id,
                   product_id, importVars, restVars>>

NextConvert == CallConvert

SpecConvert == InitConvert /\ [][NextConvert]_vars

----------------------------------------------------------------------------
(* The catalog as GrocyApi sees it *)

NoError == [error |-> "None"]

\* one request of GrocyApi: requests.get, requests.post or requests.put
Call(method, path) == [method |-> method, path |-> path]

Raise(kind) == [error |-> kind]

\* one entry of get_all_product_barcodes(): a receipt name resolves to a
\* product, the unit it is bought in and the amount one purchase stands for
Alias(p, q, a) == [product_id |-> p, qu_id |-> q, amount |-> a]

\* product 1 is bought by the piece, product 2 in packs of two
Aliases == {Alias(1, 1, 1), Alias(2, 2, 2)}

\* {p['barcode']: p for p in response.json()}
BarcodeMaps == UNION {[D -> Aliases] : D \in SUBSET Names}

\* {p['id']: p for p in response.json()}
ProductMaps ==
    UNION {[D -> [qu_id_stock : Units]] : D \in SUBSET ProductIds}

\* the catalog answers an import with no conversion or with one
CatalogConvertions ==
    {<<>>} \cup {<<c>> : c \in {d \in Convertions :
                                   d.from_qu_id # d.to_qu_id /\ d.factor = 3}}

\* letters in Python's string order: the capitals 'N' (1) and 'O' (2) come
\* before the small letters 'n' (11) and 'o' (12)
Capitals == {1, 2}

\* args.store of the import, 'n': the subcommand names are in small letters
ImportStore == <<11>>

\* a shopping location of the catalog: 'No' or 'o'
ShoppingLocations == [id : LocationIds, name : {<<1, 12>>, <<12>>}]

\* the catalog answers with no shopping location or with one
ShoppingLocationLists == {<<>>} \cup {<<o>> : o \in ShoppingLocations}

\* the lines of the receipts handed to an import: amount 0 or 2, price 1
ReceiptLines == {Purchase(a, 1, n) : a \in {0, 2}, n \in Names}

Receipts == SeqsUpTo(ReceiptLines, MaxItems)

\* the answers a GET of one resource can get
Answers(resource, all) ==
    IF catalog.fixed THEN {catalog[resource]} ELSE all

----------------------------------------------------------------------------
(* get_shopping_location_id *)

\* str.lower()
lower(name) ==
    [i \in 1..Len(name) |-> IF name[i] \in Capitals THEN name[i] + 10
                            ELSE name[i]]

\* str.startswith(prefix)
startswith(name, prefix) ==
    /\ Len(prefix) <= Len(name)
    /\ SubSeq(name, 1, Len(prefix)) = prefix

\* a < b for strings
RECURSIVE StrLess(_, _)
StrLess(a, b) ==
    IF b = <<>> THEN FALSE
    ELSE IF a = <<>> THEN TRUE
    ELSE IF Head(a) # Head(b) THEN Head(a) < Head(b)
    ELSE StrLess(Tail(a), Tail(b))

\* sorted(..., key=lambda o: o['name'].lower()) is stable
RECURSIVE InsertByKey(_, _)
InsertByKey(o, s) ==
    IF s = <<>> THEN <<o>>
    ELSE IF StrLess(lower(o.name), lower(Head(s).name)) THEN <<o>> \o s
    ELSE <<Head(s)>> \o InsertByKey(o, Tail(s))

RECURSIVE sorted_by_key(_)
sorted_by_key(s) ==
    IF s = <<>> THEN <<>>
    ELSE InsertByKey(s[Len(s)], sorted_by_key(SubSeq(s, 1, Len(s) - 1)))

\* a slip that takes the first match as the catalog lists them
find_shopping_location_for_unsorted(store, options) ==
    LET found == SelectSeq(options,
                           LAMBDA o : startswith(lower(o.name), store))
    IN  IF found = <<>> THEN Raise("UserError") ELSE Returns(found[1])

find_shopping_location_for(store, options) ==
    LET found == sorted_by_key(
                    SelectSeq(options,
                              LAMBDA o : startswith(lower(o.name), store)))
    IN  IF found = <<>> THEN Raise("UserError") ELSE Returns(found[1])

\* get_shopping_location_id once the catalog has answered with `options`
get_shopping_location_id(store, configured, options) ==
    IF configured # None THEN Returns(configured)
    ELSE LET found == find_shopping_location_for(store, options)
         IN  IF IsError(found) THEN found ELSE Returns(found.value.id)

----------------------------------------------------------------------------
(* Store.import_purchase *)

\* [str(item) for item in groceries if item.name not in barcodes]; str(item)
\* is never empty, so any() of the list is true exactly when it has an element
unknown_items(gs, bs) == SelectSeq(gs, LAMBDA item : item.name \notin DOMAIN bs)

RECURSIVE GCD(_, _)
GCD(a, b) == IF b = 0 THEN a ELSE GCD(b, a % b)

Abs(n) == IF n < 0 THEN -n ELSE n

\* the quotient n / d as a fraction in lowest terms
Quotient(n, d) ==
    LET g == GCD(Abs(n), d)
    IN  [num |-> n \div g, den |-> d \div g]

Request(p, amount, price, location) ==
    [product_id |-> p, amount |-> amount, price |-> price,
     shopping_location_id |-> location]

\* a slip that forgets the amount one alias stands for
prepare_per_piece(item, bs, ps, cs, location) ==
    IF item.name \notin DOMAIN bs THEN Raise("KeyError")
    ELSE
    LET pro == bs[item.name]
    IN  IF pro.product_id \notin DOMAIN ps THEN Raise("KeyError")
        ELSE LET f == convert_unit(cs, pro.qu_id,
                                   ps[pro.product_id].qu_id_stock,
                                   pro.product_id)
             IN  IF IsError(f) THEN f
                 ELSE IF item.amount = 0 THEN Raise("ZeroDivisionError")
                 ELSE Returns(Request(pro.product_id,
                                      item.amount * f.value,
                                      Quotient(item.price, item.amount),
                                      location))

\* the body of the preparation loop for one item: the arguments of
\* grocy.purchase, or the exception their evaluation raises
prepare(item, bs, ps, cs, location) ==
    IF item.name \notin DOMAIN bs THEN Raise("KeyError")
    ELSE
    LET pro == bs[item.name]
    IN  IF pro.product_id \notin DOMAIN ps THEN Raise("KeyError")
        ELSE LET f == convert_unit(cs, pro.qu_id,
                                   ps[pro.product_id].qu_id_stock,
                                   pro.product_id)
             IN  IF IsError(f) THEN f
                 ELSE IF item.amount = 0 THEN Raise("ZeroDivisionError")
                 ELSE Returns(Request(pro.product_id,
                                      item.amount * pro.amount * f.value,
                                      Quotient(item.price, item.amount),
                                      location))

\* a slip that prepares each call only when it is its turn: the calls before
\* the first failure are handed on
RECURSIVE prepare_all_lazy(_, _, _, _, _)
prepare_all_lazy(gs, bs, ps, cs, location) ==
    IF gs = <<>> THEN Returns(<<>>)
    ELSE LET first == prepare(Head(gs), bs, ps, cs, location)
         IN  IF IsError(first) THEN Returns(<<>>)
             ELSE Returns(<<first.value>>
                          \o prepare_all_lazy(Tail(gs), bs, ps, cs,
                                              location).value)

\* the preparation loop: the prepared calls, or the first exception
RECURSIVE prepare_all(_, _, _, _, _)
prepare_all(gs, bs, ps, cs, location) ==
    IF gs = <<>> THEN Returns(<<>>)
    ELSE LET first == prepare(Head(gs), bs, ps, cs, location)
         IN  IF IsError(first) THEN first
             ELSE LET rest == prepare_all(Tail(gs), bs, ps, cs, location)
                  IN  IF IsError(rest) THEN rest
                      ELSE Returns(<<first.value>> \o rest.value)

InitImport ==
    /\ pc = "get_purchase"
    /\ items = <<>>
    /\ groceries = <<>>
    /\ ConvertIdle
    /\ RestIdle
    /\ dry_run \in BOOLEAN
    /\ config_location \in {None} \cup LocationIds
    /\ barcodes = <<>>
    /\ shopping_location = None
    /\ products = <<>>
    /\ grocy_purchases = <<>>
    /\ posts = <<>>
    /\ stock = <<>>
    /\ added = <<>>
    /\ prompts = 0
    /\ fetches = 0
    /\ calls = <<>>
    /\ error = NoError

Fail(e) ==
    /\ pc' = "failed"
    /\ error' = e

\* the store backends main() registers
Stores == {"netto", "rewe", "ebon"}

\* Store.get_purchase on a receipt whose lines parse to `lines`: Netto hands
\* them to simplify, Rewe and Ebon return them as they stand
get_purchase(store, lines) ==
    IF store = "netto" THEN simplify(lines) ELSE lines

\* the files an import can be started on
Files ==
    IF file.fixed THEN {file}
    ELSE {[fixed |-> TRUE, store |-> store, lines |-> lines] :
            store \in Stores, lines \in Receipts}

\* line 569: the store's get_purchase returns the purchases of the receipt
GetPurchase ==
    /\ pc = "get_purchase"
    /\ \E f \in Files : groceries' = get_purchase(f.store, f.lines)
    /\ pc' = "get_barcodes"
    /\ UNCHANGED <<pureVars, importVars, restVars>>

\* a slip that parses the receipt lazily, while its purchases are submitted
GetPurchaseFails_lazy ==
    /\ pc = "submit"
    /\ posts # <<>>
    /\ Fail(Raise("ParseFailure"))
    /\ UNCHANGED <<groceries, pureVars, dry_run, config_location, barcodes,
                   shopping_location, products, grocy_purchases, posts,
                   stock, added, prompts, fetches, calls, restVars>>

\* line 569: the receipt does not have the expected structure
GetPurchaseFails ==
    /\ pc = "get_purchase"
    /\ Fail(Raise("ParseFailure"))
    /\ UNCHANGED <<groceries, pureVars, dry_run, config_location, barcodes,
                   shopping_location, products, grocy_purchases, posts,
                   stock, added, prompts, fetches,
                   calls, restVars>>

\* line 570
GetBarcodes ==
    /\ pc = "get_barcodes"
    /\ \E b \in Answers("barcodes", BarcodeMaps) : barcodes' = b
    /\ fetches' = fetches + 1
    /\ pc' = "get_location"
    /\ calls' = Append(calls, Call("GET", "objects/product_barcodes"))
    /\ UNCHANGED <<groceries, pureVars, dry_run, config_location,
                   shopping_location, products, grocy_purchases, posts,
                   stock, added, prompts, error, restVars>>

\* a slip that treats a missing shopping_location_id as fatal
GetShoppingLocation_strict ==
    /\ pc = "get_location"
    /\ IF config_location # None
       THEN /\ shopping_location' = config_location
            /\ pc' = "get_convertions"
            /\ error' = error
       ELSE Fail(Raise("UserError")) /\ shopping_location' = shopping_location
    /\ UNCHANGED <<groceries, pureVars, dry_run, config_location, barcodes,
                   products, grocy_purchases, posts, stock, added, prompts,
                   fetches, calls, restVars>>

\* line 571: get_shopping_location_id
GetShoppingLocation ==
    /\ pc = "get_location"
    /\ IF config_location # None
       THEN /\ shopping_location' = config_location
            /\ calls' = calls
            /\ pc' = "get_convertions"
            /\ error' = error
       ELSE /\ calls' = Append(calls, Call("GET", "objects/shopping_locations"))
            /\ \E options \in Answers("shopping_locations",
                                       ShoppingLocationLists) :
               LET found == get_shopping_location_id(ImportStore,
                                                     config_location, options)
               IN  IF IsError(found)
                   THEN Fail(found) /\ shopping_location' = shopping_location
                   ELSE /\ shopping_location' = found.value
                        /\ pc' = "get_convertions"
                        /\ error' = error
    /\ UNCHANGED <<groceries, pureVars, dry_run, config_location, barcodes,
                   products, grocy_purchases, posts, stock, added, prompts,
                   fetches, restVars>>

\* lines 572-573
GetConvertions ==
    /\ pc = "get_convertions"
    /\ \E cs \in Answers("convertions", CatalogConvertions) :
          convertions' = cs
    /\ calls' = Append(calls, Call("GET", "objects/quantity_unit_conversions"))
    /\ pc' = "check"
    /\ UNCHANGED <<groceries, items, from_qu_id, to_qu_id, product_id, factor,
                   dry_run, config_location, barcodes, shopping_location,
                   products, grocy_purchases, posts, stock, added, prompts,
                   fetches, error, restVars>>

\* a slip that asks once instead of looping (if for while)
CheckUnknown_once ==
    /\ pc = "check"
    /\ pc' = IF unknown_items(groceries, barcodes) # <<>> /\ prompts = 0
             THEN "prompt" ELSE "get_products"
    /\ UNCHANGED <<groceries, pureVars, importVars, restVars>>

\* lines 574-576: the loop condition
CheckUnknown ==
    /\ pc = "check"
    /\ pc' = IF unknown_items(groceries, barcodes) # <<>>
             THEN "prompt" ELSE "get_products"
    /\ UNCHANGED <<groceries, pureVars, importVars, restVars>>

\* a slip that checks again without fetching the alias map
Prompt_unfetched ==
    /\ pc = "prompt"
    /\ prompts < MaxPrompts
    /\ prompts' = prompts + 1
    /\ pc' = "check"
    /\ UNCHANGED <<groceries, pureVars, dry_run, config_location, barcodes,
                   shopping_location, products, grocy_purchases, posts,
                   stock, added, fetches, error,
                   calls, restVars>>

\* lines 577-579: the names are printed and the operator answers input('...')
Prompt ==
    /\ pc = "prompt"
    /\ prompts < MaxPrompts
    /\ prompts' = prompts + 1
    /\ pc' = "refetch"
    /\ UNCHANGED <<groceries, pureVars, dry_run, config_location, barcodes,
                   shopping_location, products, grocy_purchases, posts,
                   stock, added, fetches, error,
                   calls, restVars>>

\* a slip that keeps the alias map of the first fetch
Refetch_stale ==
    /\ pc = "refetch"
    /\ fetches' = fetches + 1
    /\ pc' = "check"
    /\ calls' = Append(calls, Call("GET", "objects/product_barcodes"))
    /\ UNCHANGED <<groceries, pureVars, dry_run, config_location, barcodes,
                   shopping_location, products, grocy_purchases, posts,
                   stock, added, prompts, error, restVars>>

\* line 580
Refetch ==
    /\ pc = "refetch"
    /\ \E b \in Answers("barcodes", BarcodeMaps) : barcodes' = b
    /\ fetches' = fetches + 1
    /\ pc' = "check"
    /\ calls' = Append(calls, Call("GET", "objects/product_barcodes"))
    /\ UNCHANGED <<groceries, pureVars, dry_run, config_location,
                   shopping_location, products, grocy_purchases, posts,
                   stock, added, prompts, error, restVars>>

\* lines 581-603: the products are fetched and every call is prepared
GetProducts ==
    /\ pc = "get_products"
    /\ \E ps \in Answers("products", ProductMaps) :
          LET prepared == prepare_all(groceries, barcodes, ps, convertions,
                                      shopping_location)
          IN  /\ products' = ps
              /\ IF IsError(prepared)
                 THEN Fail(prepared) /\ grocy_purchases' = grocy_purchases
                 ELSE /\ grocy_purchases' = prepared.value
                      /\ pc' = IF prepared.value = <<>> THEN "done"
                               ELSE "submit"
                      /\ error' = error
    /\ calls' = Append(calls, Call("GET", "objects/products"))
    /\ UNCHANGED <<groceries, pureVars, dry_run, config_location, barcodes,
                   shopping_location, posts, stock, added, prompts, fetches,
                   restVars>>

\* the resource the handler reads at a position
Resource(at) ==
    CASE at \in {"get_barcodes", "refetch"} -> "objects/product_barcodes"
      [] at = "get_location" -> "objects/shopping_locations"
      [] at = "get_convertions" -> "objects/quantity_unit_conversions"
      [] at = "get_products" -> "objects/products"

\* a GET is answered with a non-2xx status: assert_valid_response raises
GetFails ==
    /\ \/ pc \in {"get_barcodes", "get_convertions", "refetch", "get_products"}
       \/ pc = "get_location" /\ config_location = None
    /\ calls' = Append(calls, Call("GET", Resource(pc)))
    /\ Fail(Raise("UserError"))
    /\ UNCHANGED <<groceries, pureVars, dry_run, config_location, barcodes,
                   shopping_location, products, grocy_purchases, posts,
                   stock, added, prompts, fetches, restVars>>

NextCall == grocy_purchases[Len(added) + 1]

NextItem == groceries[Len(added) + 1]

AfterAdded ==
    pc' = IF Len(added) + 1 = Len(grocy_purchases) THEN "done" ELSE "submit"

\* a slip that drops the dry_run check of GrocyApi.purchase
PurchaseDryRun_sends ==
    /\ pc = "submit"
    /\ dry_run
    /\ posts' = Append(posts, NextCall)
    /\ stock' = Append(stock, NextCall)
    /\ added' = Append(added, NextItem)
    /\ calls' = Append(calls, Call("POST", "stock/products/add"))
    /\ AfterAdded
    /\ UNCHANGED <<groceries, pureVars, dry_run, config_location, barcodes,
                   shopping_location, products, grocy_purchases, prompts,
                   fetches, error, restVars>>

\* lines 604-606 with GrocyApi.purchase under --dry-run: nothing is sent
PurchaseDryRun ==
    /\ pc = "submit"
    /\ dry_run
    /\ added' = Append(added, NextItem)
    /\ AfterAdded
    /\ UNCHANGED <<groceries, pureVars, dry_run, config_location, barcodes,
                   shopping_location, products, grocy_purchases, posts,
                   stock, prompts, fetches, error,
                   calls, restVars>>

\* a slip that leaves out a purchase the catalog already holds
PurchaseOk_deduplicated ==
    /\ pc = "submit"
    /\ ~dry_run
    /\ LET known == \E i \in 1..Len(stock) : stock[i] = NextCall
       IN  /\ posts' = IF known THEN posts ELSE Append(posts, NextCall)
           /\ stock' = IF known THEN stock ELSE Append(stock, NextCall)
           /\ calls' = IF known THEN calls
                       ELSE Append(calls, Call("POST", "stock/products/add"))
    /\ added' = Append(added, NextItem)
    /\ AfterAdded
    /\ UNCHANGED <<groceries, pureVars, dry_run, config_location, barcodes,
                   shopping_location, products, grocy_purchases, prompts,
                   fetches, error, restVars>>

\* lines 604-606 with GrocyApi.purchase: the catalog answers 2xx
PurchaseOk ==
    /\ pc = "submit"
    /\ ~dry_run
    /\ posts' = Append(posts, NextCall)
    /\ stock' = Append(stock, NextCall)
    /\ added' = Append(added, NextItem)
    /\ AfterAdded
    /\ calls' = Append(calls, Call("POST", "stock/products/add"))
    /\ UNCHANGED <<groceries, pureVars, dry_run, config_location, barcodes,
                   shopping_location, products, grocy_purchases, prompts,
                   fetches, error, restVars>>

\* a slip that reports the item before its call is made
PurchaseRejected_reported ==
    /\ pc = "submit"
    /\ ~dry_run
    /\ posts' = Append(posts, NextCall)
    /\ added' = Append(added, NextItem)
    /\ Fail(Raise("UserError"))
    /\ calls' = Append(calls, Call("POST", "stock/products/add"))
    /\ UNCHANGED <<groceries, pureVars, dry_run, config_location, barcodes,
                   shopping_location, products, grocy_purchases, stock,
                   prompts, fetches, restVars>>

\* the catalog rejects the purchase: assert_valid_response raises UserError
PurchaseRejected ==
    /\ pc = "submit"
    /\ ~dry_run
    /\ posts' = Append(posts, NextCall)
    /\ Fail(Raise("UserError"))
    /\ calls' = Append(calls, Call("POST", "stock/products/add"))
    /\ UNCHANGED <<groceries, pureVars, dry_run, config_location, barcodes,
                   shopping_location, products, grocy_purchases, stock,
                   added, prompts, fetches, restVars>>

\* no answer within the timeout: requests raises, the catalog may or may not
\* have recorded the purchase
PurchaseTimeout ==
    /\ pc = "submit"
    /\ ~dry_run
    /\ posts' = Append(posts, NextCall)
    /\ stock' \in {stock, Append(stock, NextCall)}
    /\ Fail(Raise("RequestException"))
    /\ calls' = Append(calls, Call("POST", "stock/products/add"))
    /\ UNCHANGED <<groceries, pureVars, dry_run, config_location, barcodes,
                   shopping_location, products, grocy_purchases, added,
                   prompts, fetches, restVars>>

Next ==
    \/ GetPurchase
    \/ GetPurchaseFails
    \/ GetBarcodes
    \/ GetShoppingLocation
    \/ GetConvertions
    \/ CheckUnknown
    \/ Prompt
    \/ Refetch
    \/ GetProducts
    \/ GetFails
    \/ PurchaseDryRun
    \/ PurchaseOk
    \/ PurchaseRejected
    \/ PurchaseTimeout

Init == InitImport

Spec == Init /\ [][Next]_vars

----------------------------------------------------------------------------
(* One receipt imported twice: main() run again after a failed run *)

MaxRunItems == 2   \* lines of the receipt that is imported twice

\* a receipt of a store whose lines are imported as they stand
RunFiles ==
    {[fixed |-> TRUE, store |-> "ebon", lines |-> lines] :
        lines \in SeqsUpTo(ReceiptLines, MaxRunItems)}

\* every receipt name has its alias
FullAliases == [n \in Names |-> Alias(n, n, n)]

\* the alias maps of a catalog no other client edits
RunAliases == {<<>>, [n \in {1} |-> Alias(1, 1, 1)], FullAliases}

\* a catalog that knows every product, converts packs to pieces and has the
\* store's shopping location
RunCatalogs ==
    {[fixed |-> TRUE,
      barcodes |-> b,
      products |-> [p \in ProductIds |-> [qu_id_stock |-> 1]],
      convertions |-> <<Convertion(2, 1, None, 3)>>,
      shopping_locations |-> <<o>>] :
        b \in RunAliases,
        o \in {l \in ShoppingLocations :
                    startswith(lower(l.name), ImportStore)}}

InitRuns ==
    /\ pc = "get_purchase"
    /\ items = <<>>
    /\ groceries = <<>>
    /\ ConvertIdle
    /\ OthersIdle
    /\ MoreIdle
    /\ file \in RunFiles
    /\ catalog \in RunCatalogs
    /\ recorded = <<>>
    /\ dry_run \in BOOLEAN
    /\ config_location \in {None} \cup LocationIds
    /\ barcodes = <<>>
    /\ shopping_location = None
    /\ products = <<>>
    /\ grocy_purchases = <<>>
    /\ posts = <<>>
    /\ stock = <<>>
    /\ added = <<>>
    /\ prompts = 0
    /\ fetches = 0
    /\ calls = <<>>
    /\ error = NoError

\* lines 577-579: while input() waits, the operator adds aliases in the
\* catalog; the catalog is left alone once the first run has ended
OperatorAdds ==
    /\ pc = "prompt"
    /\ recorded = <<>>
    /\ \E b \in RunAliases :
          /\ DOMAIN catalog.barcodes \subseteq DOMAIN b
          /\ DOMAIN catalog.barcodes # DOMAIN b
          /\ \A n \in DOMAIN catalog.barcodes : b[n] = catalog.barcodes[n]
          /\ catalog' = [catalog EXCEPT !.barcodes = b]
    /\ UNCHANGED <<pc, groceries, pureVars, importVars, apiVars, receiptVars,
                   moreVars, file, recorded>>

\* main() is started again on the same file after a run that failed with
\* purchases recorded: a new process, the catalog keeps what it recorded
Rerun ==
    /\ pc = "failed"
    /\ recorded = <<>>
    /\ stock # <<>>
    /\ recorded' = stock
    /\ pc' = "get_purchase"
    /\ groceries' = <<>>
    /\ barcodes' = <<>>
    /\ shopping_location' = None
    /\ products' = <<>>
    /\ convertions' = <<>>
    /\ grocy_purchases' = <<>>
    /\ posts' = <<>>
    /\ added' = <<>>
    /\ prompts' = 0
    /\ fetches' = 0
    /\ calls' = <<>>
    /\ error' = NoError
    /\ UNCHANGED <<items, from_qu_id, to_qu_id, product_id, factor, dry_run,
                   config_location, stock, apiVars, receiptVars, moreVars,
                   file, catalog>>

\* the statements of import_purchase that need no one but the program
Progress ==
    \/ GetPurchase
    \/ GetBarcodes
    \/ GetShoppingLocation
    \/ GetConvertions
    \/ CheckUnknown
    \/ Refetch
    \/ GetProducts
    \/ PurchaseDryRun
    \/ PurchaseOk

NextRuns ==
    \/ GetPurchase
    \/ GetPurchaseFails
    \/ GetBarcodes
    \/ GetShoppingLocation
    \/ GetConvertions
    \/ CheckUnknown
    \/ Prompt
    \/ OperatorAdds
    \/ Refetch
    \/ GetProducts
    \/ GetFails
    \/ PurchaseDryRun
    \/ PurchaseOk
    \/ PurchaseRejected
    \/ PurchaseTimeout
    \/ Rerun

\* the interpreter runs the next statement of a running program; a request
\* may fail, the operator may never answer
SpecRuns == InitRuns /\ [][NextRuns]_vars /\ WF_vars(Progress)

----------------------------------------------------------------------------
(* Specification of Netto.get_purchase: from the cell texts on *)

MaxCells == 6      \* cells kept from the rows of the receipt's table

\* column.get_text() of a kept cell: white space only, a number with its
\* unit ('2 x', '1,99 EUR') or any other text; '' is filtered out before
Space == [isspace |-> TRUE]

Number(v) == [isspace |-> FALSE, number |-> v]

Text(n) == [isspace |-> FALSE, name |-> n]

Cells == {Space, Number(1), Number(2), Text(1)}

IsNumber(cell) == "number" \in DOMAIN cell

\* lines 779-784: a white-space cell opens a group, any other cell goes to
\* items[-1]; on the empty list items[-1] raises IndexError
RECURSIVE group_cells(_, _)
group_cells(purchase, groups) ==
    IF purchase = <<>> THEN Returns(groups)
    ELSE IF Head(purchase).isspace
         THEN group_cells(Tail(purchase), Append(groups, <<>>))
    ELSE IF groups = <<>> THEN Raise("IndexError")
    ELSE group_cells(Tail(purchase),
                     [groups EXCEPT ![Len(groups)] = Append(@, Head(purchase))])

\* normanlize_white_space(args[i]): the name a cell stands for
name_of(cell) == IF IsNumber(cell) THEN 2 ELSE cell.name

\* lines 788-796: float() of a text that is no number raises ValueError, a
\* group of two cells is one piece
_parse_purchase(args) ==
    IF Len(args) = 2
    THEN IF IsNumber(args[2])
         THEN Returns(Purchase(1, args[2].number, name_of(args[1])))
         ELSE Raise("ValueError")
    ELSE IF IsNumber(args[1]) /\ IsNumber(args[3])
         THEN Returns(Purchase(args[1].number, args[3].number,
                               name_of(args[2])))
         ELSE Raise("ValueError")

\* lines 785-786: the generator simplify is handed, consumed in order
RECURSIVE parse_groups(_)
parse_groups(groups) ==
    IF groups = <<>> THEN Returns(<<>>)
    ELSE IF Len(Head(groups)) <= 1 THEN parse_groups(Tail(groups))
    ELSE LET first == _parse_purchase(Head(groups))
         IN  IF IsError(first) THEN first
             ELSE LET rest == parse_groups(Tail(groups))
                  IN  IF IsError(rest) THEN rest
                      ELSE Returns(<<first.value>> \o rest.value)

\* lines 779-786: the purchase lines handed to simplify
netto_lines(purchase) ==
    LET groups == group_cells(purchase, <<>>)
    IN  IF IsError(groups) THEN groups ELSE parse_groups(groups.value)

NettoFrame ==
    UNCHANGED <<convertions, from_qu_id, to_qu_id, product_id, factor,
                dry_run, config_location, barcodes, shopping_location,
                products, grocy_purchases, posts, stock, added, prompts,
                fetches, calls, apiVars, receiptVars, runVars, cells,
                locationVars, choreVars, pullVars>>

InitNetto ==
    /\ pc = "netto"
    /\ cells \in SeqsUpTo(Cells, MaxCells)
    /\ items = <<>>
    /\ groceries = <<>>
    /\ ConvertIdle
    /\ ImportQuiet
    /\ RunIdle
    /\ OthersIdle
    /\ LocationIdle
    /\ ChoreIdle
    /\ PullIdle

\* Netto.get_purchase from line 779 on
CallNetto ==
    /\ pc = "netto"
    /\ LET lines == netto_lines(cells)
       IN  IF IsError(lines)
           THEN /\ Fail(lines)
                /\ UNCHANGED <<items, groceries>>
           ELSE /\ items' = lines.value
                /\ groceries' = simplify(lines.value)
                /\ pc' = "netto_done"
                /\ UNCHANGED error
    /\ NettoFrame

NextNetto == CallNetto

SpecNetto == InitNetto /\ [][NextNetto]_vars

----------------------------------------------------------------------------
(* Specification of get_shopping_location_id *)

MaxOptions == 2    \* shopping locations the catalog answers with

\* names of one or two letters
LocationNames ==
    {<<a>> : a \in {1, 11, 12}}
        \cup {<<a, b>> : a \in {1, 11, 12}, b \in {1, 11, 12}}

\* the store identifiers: 'n' and 'no'
StoreIds == {<<11>>, <<11, 12>>}

\* response.json() of /objects/shopping_locations: the ids are distinct
OptionLists ==
    {os \in SeqsUpTo([id : 1..MaxOptions, name : LocationNames], MaxOptions) :
        \A i, j \in 1..Len(os) : os[i].id = os[j].id => i = j}

InitLocation ==
    /\ pc = "location"
    /\ args_store \in StoreIds
    /\ locations \in OptionLists
    /\ items = <<>>
    /\ groceries = <<>>
    /\ ConvertIdle
    /\ ops = <<>>
    /\ ebon = <<>>
    /\ orders = <<>>
    /\ order = 1
    /\ RunIdle
    /\ NettoIdle
    /\ ChoreIdle
    /\ PullIdle
    /\ dry_run = FALSE
    /\ config_location \in {None, 1}
    /\ barcodes = <<>>
    /\ shopping_location = None
    /\ products = <<>>
    /\ grocy_purchases = <<>>
    /\ posts = <<>>
    /\ stock = <<>>
    /\ added = <<>>
    /\ prompts = 0
    /\ fetches = 0
    /\ calls = <<>>
    /\ error = NoError

\* get_shopping_location_id; the catalog is asked only without a setting
CallLocation ==
    /\ pc = "location"
    /\ LET found == get_shopping_location_id(args_store, config_location,
                                             locations)
       IN  IF IsError(found)
           THEN Fail(found) /\ shopping_location' = shopping_location
           ELSE /\ shopping_location' = found.value
                /\ pc' = "located"
                /\ error' = error
    /\ calls' = IF config_location # None THEN calls
                ELSE Append(calls, Call("GET", "objects/shopping_locations"))
    /\ UNCHANGED <<groceries, pureVars, dry_run, config_location, barcodes,
                   products, grocy_purchases, posts, stock, added, prompts,
                   fetches, restVars>>

NextLocation == CallLocation

SpecLocation == InitLocation /\ [][NextLocation]_vars

----------------------------------------------------------------------------
(* Specification of chore_did_cmd *)

MaxChores == 2     \* chores in one list of the catalog or of the command line

ChoreIds == 1..3

\* lists of chores, each chore once
ChoreLists ==
    {l \in SeqsUpTo(ChoreIds, MaxChores) :
        \A i, j \in 1..Len(l) : l[i] = l[j] => i = j}

\* everything but the chore commands is at rest
ChoreQuiet ==
    /\ items = <<>>
    /\ groceries = <<>>
    /\ ConvertIdle
    /\ ImportQuiet
    /\ OthersIdle
    /\ RunIdle
    /\ NettoIdle
    /\ LocationIdle
    /\ PullIdle

ChoreFrame ==
    UNCHANGED <<groceries, pureVars, dry_run, config_location, barcodes,
                shopping_location, products, grocy_purchases, posts, stock,
                added, prompts, fetches, calls, apiVars, receiptVars,
                runVars, nettoVars, locationVars, pullVars>>

InitChoreDid ==
    /\ pc = "chore_did"
    /\ chore_args \in [ids : {<<>>, <<1>>}, all : BOOLEAN]
    /\ chore_data \in [overdue : ChoreLists, scheduled : ChoreLists]
    /\ todo = <<>>
    /\ chore = Unbound
    /\ sched_at = 0
    /\ confirmed = {}
    /\ chore_calls = <<>>
    /\ ChoreQuiet

\* GrocyApi.did_chore(chore_id, ...): the catalog accepts or rejects
did_chore(chore_id, next) ==
    /\ chore_calls' = Append(chore_calls,
                             [op |-> "did_chore", chore_id |-> chore_id])
    /\ \/ pc' = next /\ error' = error
       \/ Fail(Raise("UserError"))

\* lines 1180, 1184-1186, 1189: the list the first loop goes through
StartDid ==
    /\ pc = "chore_did"
    /\ IF chore_args.ids # <<>>
       THEN todo' = chore_args.ids /\ pc' = "did_ids"
       ELSE IF ~chore_args.all
       THEN todo' = chore_data.overdue /\ pc' = "did_overdue"
       ELSE todo' = chore_data.scheduled /\ pc' = "did_scheduled"
    /\ UNCHANGED <<chore_args, chore_data, chore, sched_at, confirmed,
                   chore_calls, error>>
    /\ ChoreFrame

\* lines 1181-1182
DidId ==
    /\ pc = "did_ids"
    /\ todo # <<>>
    /\ did_chore(Head(todo), pc)
    /\ todo' = Tail(todo)
    /\ UNCHANGED <<chore_args, chore_data, chore, sched_at, confirmed>>
    /\ ChoreFrame

\* lines 1186-1188: one overdue chore
AskOverdue ==
    /\ pc = "did_overdue"
    /\ todo # <<>>
    /\ chore' = Head(todo)
    /\ todo' = Tail(todo)
    /\ \E human_agrees \in BOOLEAN :
          IF human_agrees
          THEN /\ confirmed' = confirmed \cup {Head(todo)}
               /\ did_chore(Head(todo), pc)
          ELSE UNCHANGED <<confirmed, chore_calls, pc, error>>
    /\ UNCHANGED <<chore_args, chore_data, sched_at>>
    /\ ChoreFrame

\* line 1189: the overdue chores are through
EndOverdue ==
    /\ pc = "did_overdue"
    /\ todo = <<>>
    /\ todo' = chore_data.scheduled
    /\ pc' = "did_scheduled"
    /\ UNCHANGED <<chore_args, chore_data, chore, sched_at, confirmed,
                   chore_calls, error>>
    /\ ChoreFrame

\* lines 1189-1191: one scheduled chore, `choreFull`; did_chore is handed
\* chore['id'], and reading `chore` before any assignment raises
AskScheduled ==
    /\ pc = "did_scheduled"
    /\ todo # <<>>
    /\ todo' = Tail(todo)
    /\ \E human_agrees \in BOOLEAN :
          IF human_agrees
          THEN /\ confirmed' = confirmed \cup {Head(todo)}
               /\ IF chore = Unbound
                  THEN /\ Fail(Raise("UnboundLocalError"))
                       /\ chore_calls' = chore_calls
                  ELSE did_chore(chore, pc)
          ELSE UNCHANGED <<confirmed, chore_calls, pc, error>>
    /\ UNCHANGED <<chore_args, chore_data, chore, sched_at>>
    /\ ChoreFrame

\* lines 1183, 1191: the command returns
EndDid ==
    /\ pc \in {"did_ids", "did_scheduled"}
    /\ todo = <<>>
    /\ pc' = "did_done"
    /\ UNCHANGED <<choreVars, error>>
    /\ ChoreFrame

NextChoreDid ==
    \/ StartDid
    \/ DidId
    \/ AskOverdue
    \/ EndOverdue
    \/ AskScheduled
    \/ EndDid

SpecChoreDid == InitChoreDid /\ [][NextChoreDid]_vars

----------------------------------------------------------------------------
(* Specification of chore_schedule_cmd *)

\* dates in Grocy's format compare as strings in the order of time
Dates == 1..3

\* --keep
Keeps == {"later", "earlier", "old", "new"}

\* grocy.get_chore(chore_id): with no rescheduled_date, with None or a date
ChoreRecords ==
    {[name |-> 1]}
        \cup {[name |-> 1, rescheduled_date |-> d] : d \in {None} \cup Dates}

InitChoreSchedule ==
    /\ pc = "chore_schedule"
    /\ chore_args \in [ids : ChoreLists \ {<<>>}, keep : Keeps, at : {2}]
    /\ chore_data \in [ChoreIds -> ChoreRecords]
    /\ todo = chore_args.ids
    /\ chore = Unbound
    /\ sched_at = chore_args.at
    /\ confirmed = {}
    /\ chore_calls = <<>>
    /\ ChoreQuiet

\* lines 1203-1213: `at` after the try statement for one chore
kept_at(chore_full, at, keep) ==
    IF "rescheduled_date" \notin DOMAIN chore_full THEN at
    ELSE LET prev_schedule == chore_full.rescheduled_date
         IN  IF /\ prev_schedule # None
                /\ \/ keep = "old"
                   \/ prev_schedule < at /\ keep = "earlier"
                   \/ prev_schedule > at /\ keep = "later"
             THEN prev_schedule
             ELSE at

\* GrocyApi.schedule_chore(chore_id, date_time): accepted or rejected
schedule_chore(chore_id, date_time) ==
    /\ chore_calls' = Append(chore_calls,
                             [op |-> "schedule_chore", chore_id |-> chore_id,
                              date_time |-> date_time])
    /\ \/ pc' = pc /\ error' = error
       \/ Fail(Raise("UserError"))

\* lines 1202-1214: one round of the loop
ScheduleChore ==
    /\ pc = "chore_schedule"
    /\ todo # <<>>
    /\ sched_at' = kept_at(chore_data[Head(todo)], sched_at, chore_args.keep)
    /\ schedule_chore(Head(todo), sched_at')
    /\ todo' = Tail(todo)
    /\ UNCHANGED <<chore_args, chore_data, chore, confirmed>>
    /\ ChoreFrame

\* line 1204: the catalog rejects get_chore
GetChoreFails ==
    /\ pc = "chore_schedule"
    /\ todo # <<>>
    /\ Fail(Raise("UserError"))
    /\ UNCHANGED choreVars
    /\ ChoreFrame

\* the loop is through
EndSchedule ==
    /\ pc = "chore_schedule"
    /\ todo = <<>>
    /\ pc' = "schedule_done"
    /\ UNCHANGED <<choreVars, error>>
    /\ ChoreFrame

NextChoreSchedule ==
    \/ ScheduleChore
    \/ GetChoreFails
    \/ EndSchedule

SpecChoreSchedule == InitChoreSchedule /\ [][NextChoreSchedule]_vars

----------------------------------------------------------------------------
(* Specification of todotxt_chore_pull *)

MaxTodo == 3       \* lines of the todo.txt file

\* a line of todo.txt: the id regex 'chore:(\d+)' finds in it (None when it
\* finds none), whether it starts with 'x ', and the rest of its text
TodoLine(chore_id, done, text) ==
    [chore |-> chore_id, done |-> done, text |-> text]

TodoLines ==
    {TodoLine(c, d, t) : c \in {None, 1}, d \in BOOLEAN, t \in {1, 2}}

\* what chore_show_cmd prints into the file: no line or one open chore
ShownLists == {<<>>, <<TodoLine(1, FALSE, 1)>>}

InitPull ==
    /\ pc = "pull"
    /\ todo_file \in SeqsUpTo(TodoLines, MaxTodo)
    /\ backup \in {NoFile, [exists |-> TRUE, lines |-> <<>>]}
    /\ new_content = <<>>
    /\ items = <<>>
    /\ groceries = <<>>
    /\ ConvertIdle
    /\ ImportQuiet
    /\ OthersIdle
    /\ RunIdle
    /\ NettoIdle
    /\ LocationIdle
    /\ ChoreIdle

PullFrame ==
    UNCHANGED <<groceries, pureVars, dry_run, config_location, barcodes,
                shopping_location, products, grocy_purchases, posts, stock,
                added, prompts, fetches, apiVars, receiptVars, runVars,
                nettoVars, locationVars, choreVars>>

\* lines 1263-1270: the lines kept so far, or the UserError of the first
\* line with a chore reference that starts with 'x '
RECURSIVE read_todo(_, _)
read_todo(lines, kept) ==
    IF lines = <<>> THEN Returns(kept)
    ELSE IF Head(lines).chore = None
         THEN read_todo(Tail(lines), Append(kept, Head(lines)))
    ELSE IF Head(lines).done THEN Raise("UserError")
    ELSE read_todo(Tail(lines), kept)

\* a slip that drops the lines of done chores like those of open ones
ReadTodo_unchecked ==
    /\ pc = "pull"
    /\ new_content' = SelectSeq(todo_file, LAMBDA l : l.chore = None)
    /\ pc' = "pull_backup"
    /\ UNCHANGED <<todo_file, backup, calls, error>>
    /\ PullFrame

\* lines 1260-1270
ReadTodo ==
    /\ pc = "pull"
    /\ LET read == read_todo(todo_file, <<>>)
       IN  IF IsError(read)
           THEN Fail(read) /\ new_content' = new_content
           ELSE /\ new_content' = read.value
                /\ pc' = "pull_backup"
                /\ error' = error
    /\ UNCHANGED <<todo_file, backup, calls>>
    /\ PullFrame

\* line 1271: copyfile(todo_file, todo_file + ".bak"), or its OSError
Backup ==
    /\ pc = "pull_backup"
    /\ \/ /\ backup' = [exists |-> TRUE, lines |-> todo_file]
          /\ pc' = "pull_open"
          /\ error' = error
       \/ /\ Fail(Raise("OSError"))
          /\ backup' = backup
    /\ UNCHANGED <<todo_file, new_content, calls>>
    /\ PullFrame

\* lines 1272-1274: the file is opened for writing, which empties it, and
\* the kept lines are written
Overwrite ==
    /\ pc = "pull_open"
    /\ todo_file' = new_content
    /\ pc' = "pull_show"
    /\ UNCHANGED <<backup, new_content, calls, error>>
    /\ PullFrame

\* line 1275: chore_show_cmd asks the catalog and prints the chores
ShowChores ==
    /\ pc = "pull_show"
    /\ \E shown \in ShownLists : todo_file' = todo_file \o shown
    /\ calls' = calls \o <<Call("GET", "chores"),
                           Call("GET", "objects/chores")>>
    /\ pc' = "pull_done"
    /\ UNCHANGED <<backup, new_content, error>>
    /\ PullFrame

\* line 1275: the catalog rejects a request of chore_show_cmd
ShowFails ==
    /\ pc = "pull_show"
    /\ calls' = Append(calls, Call("GET", "chores"))
    /\ Fail(Raise("UserError"))
    /\ UNCHANGED <<todo_file, backup, new_content>>
    /\ PullFrame

NextPull ==
    \/ ReadTodo
    \/ Backup
    \/ Overwrite
    \/ ShowChores
    \/ ShowFails

SpecPull == InitPull /\ [][NextPull]_vars

----------------------------------------------------------------------------
(* Specification of the GrocyApi operations that write *)

MaxCalls == 3     \* operations called on one GrocyApi object

ApiIdle ==
    /\ SideIdle
    /\ items = <<>>
    /\ groceries = <<>>
    /\ ConvertIdle
    /\ config_location = None
    /\ barcodes = <<>>
    /\ shopping_location = None
    /\ products = <<>>
    /\ grocy_purchases = <<>>
    /\ posts = <<>>
    /\ stock = <<>>
    /\ added = <<>>
    /\ prompts = 0
    /\ fetches = 0
    /\ ebon = <<>>
    /\ orders = <<>>
    /\ order = 1

\* GrocyApi.__init__: dry_run is fixed for the life of the object
InitApi ==
    /\ pc = "api"
    /\ dry_run \in BOOLEAN
    /\ calls = <<>>
    /\ ops = <<>>
    /\ error = NoError
    /\ ApiIdle

ApiFrame ==
    UNCHANGED <<groceries, pureVars, dry_run, config_location, barcodes,
                shopping_location, products, grocy_purchases, posts, stock,
                added, prompts, fetches, quietVars>>

\* the operation `op` is called and sends `sent`, a list of at most one
\* request; assert_valid_response raises UserError on a non-2xx answer
Operation(op, sent) ==
    /\ pc = "api"
    /\ Len(ops) < MaxCalls
    /\ ops' = Append(ops, op)
    /\ calls' = calls \o sent
    /\ \/ pc' = pc /\ error' = error
       \/ sent # <<>> /\ Fail(Raise("UserError"))
    /\ ApiFrame

\* lines 386-401
ApiPurchase ==
    Operation("purchase",
              IF dry_run THEN <<>>
              ELSE <<Call("POST", "stock/products/add")>>)

\* lines 328-337
ApiScheduleChore ==
    Operation("schedule_chore",
              IF dry_run THEN <<>> ELSE <<Call("PUT", "objects/chores")>>)

\* lines 339-359: under dry_run the chore is read with get_chore instead
ApiDidChore ==
    Operation("did_chore",
              IF dry_run THEN <<Call("GET", "chores")>>
              ELSE <<Call("POST", "chores/execute")>>)

\* lines 361-375
ApiChargeBattery ==
    Operation("charge_battery",
              IF dry_run THEN <<>> ELSE <<Call("POST", "batteries/charge")>>)

\* lines 412-420: no dry_run test
ApiSetUserfields ==
    Operation("set_userfields", <<Call("PUT", "userfields")>>)

NextApi ==
    \/ ApiPurchase
    \/ ApiScheduleChore
    \/ ApiDidChore
    \/ ApiChargeBattery
    \/ ApiSetUserfields

SpecApi == InitApi /\ [][NextApi]_vars

----------------------------------------------------------------------------
(* Specification of Ebon._get_purchases *)

MaxEbonLines == 4     \* lines of the text extracted from the PDF

\* A line of the text, by what the code tests on it:
\*   "item"  matches the regex: an optional prefix `<count>x <unit>`, the
\*           name and the line total (count = None: no prefix; a prefix
\*           count is at least 1 here)
\*   "summe" starts with 'SUMME '
\*   "empty" has length 0
\*   "space" is not empty and holds white space only (no regex match)
\*   "text"  any other line the regex does not match
EbonLine(kind, count, unit, name, total) ==
    [kind |-> kind, count |-> count, unit |-> unit, name |-> name,
     total |-> total]

EbonLines ==
    {EbonLine("item", None, None, n, t) : n \in Names, t \in {1, 2}}
    \cup {EbonLine("item", 2, 1, n, 2) : n \in Names}
    \cup {EbonLine(k, None, None, None, None) :
            k \in {"summe", "empty", "space", "text"}}

\* line.startswith('SUMME ')
startswith_summe(line) == line.kind = "summe"

\* regex.search(line) is not None
regex_search(line) == line.kind = "item"

\* lines 736-738: int(group(1) or 1), the total in cents, group(2)
purchase_of(line) ==
    Purchase(IF line.count # None THEN line.count ELSE 1,
             line.total,
             line.name)

\* lines 729-738: the loop over the lines; the purchases yielded, or the
\* AssertionError that ends list(...)
RECURSIVE parse_lines(_)
parse_lines(lines) ==
    IF lines = <<>> THEN Returns(<<>>)
    ELSE IF startswith_summe(Head(lines)) THEN Returns(<<>>)
    ELSE IF Head(lines).kind = "empty" THEN parse_lines(Tail(lines))
    ELSE IF ~regex_search(Head(lines)) THEN Raise("AssertionError")
    ELSE LET rest == parse_lines(Tail(lines))
         IN  IF IsError(rest) THEN rest
             ELSE Returns(<<purchase_of(Head(lines))>> \o rest.value)

\* a slip that forgets to drop the first line ([1:])
get_purchases_with_header(text) == parse_lines(text)

\* ebon.splitlines()[1:] handed to the loop
get_purchases(text) ==
    parse_lines(IF text = <<>> THEN <<>> ELSE Tail(text))

EbonIdle ==
    /\ SideIdle
    /\ items = <<>>
    /\ ConvertIdle
    /\ dry_run = FALSE
    /\ config_location = None
    /\ barcodes = <<>>
    /\ shopping_location = None
    /\ products = <<>>
    /\ grocy_purchases = <<>>
    /\ posts = <<>>
    /\ stock = <<>>
    /\ added = <<>>
    /\ prompts = 0
    /\ fetches = 0
    /\ calls = <<>>
    /\ ops = <<>>
    /\ orders = <<>>
    /\ order = 1

InitEbon ==
    /\ pc = "ebon"
    /\ ebon \in SeqsUpTo(EbonLines, MaxEbonLines)
    /\ groceries = <<>>
    /\ error = NoError
    /\ EbonIdle

\* lines 688-689: Ebon.get_purchase returns the list or raises
CallEbon ==
    /\ pc = "ebon"
    /\ LET result == get_purchases(ebon)
       IN  IF IsError(result)
           THEN Fail(result) /\ groceries' = groceries
           ELSE /\ groceries' = result.value
                /\ pc' = "parsed"
                /\ error' = error
    /\ UNCHANGED <<pureVars, dry_run, config_location, barcodes,
                   shopping_location, products, grocy_purchases, posts,
                   stock, added, prompts, fetches, calls, restVars>>

NextEbon == CallEbon

SpecEbon == InitEbon /\ [][NextEbon]_vars

----------------------------------------------------------------------------
(* Specification of Rewe.get_purchase *)

MaxOrders == 2     \* orders in "Meine REWE-Shop-Daten.json"

\* ReweJsonLineItem; titles are product names or, from 3 on, the titles
\* get_purchase leaves out
LineItem(title, quantity, price, total_price) ==
    [title |-> title, quantity |-> quantity, price |-> price,
     total_price |-> total_price]

\* 'TimeSlot', 'Enthaltene Pfandbeträge', 'Getränke-Sperrgutaufschlag'
ExcludedTitles == {3}

\* the lineItems of the sub-orders: one product, another product, a fee
\* followed by both products
LineItemLists ==
    {<<LineItem(1, 2, 1, 2)>>,
     <<LineItem(2, 1, 1, 1)>>,
     <<LineItem(3, 1, 0, 0), LineItem(1, 1, 1, 1), LineItem(2, 2, 1, 2)>>}

\* ReweJsonSuborder
Suborders == [line_items : LineItemLists]

\* ReweJsonOrder: creation_date by its rank in string order
ReweOrders ==
    [creation_date : {1, 2}, sub_orders : SeqsUpTo(Suborders, 2)]

\* the values of --order tried: type=int, default=1
OrderSelectors == {-1, 0, 1, 2, 3}

\* a slip that sorts oldest first (reverse=True forgotten)
RECURSIVE InsertByDate_ascending(_, _)
InsertByDate_ascending(o, s) ==
    IF s = <<>> THEN <<o>>
    ELSE IF o.creation_date < Head(s).creation_date THEN <<o>> \o s
    ELSE <<Head(s)>> \o InsertByDate_ascending(o, Tail(s))

\* o is put before the first order with a smaller creation_date
RECURSIVE InsertByDate(_, _)
InsertByDate(o, s) ==
    IF s = <<>> THEN <<o>>
    ELSE IF o.creation_date > Head(s).creation_date THEN <<o>> \o s
    ELSE <<Head(s)>> \o InsertByDate(o, Tail(s))

\* sorted(self.orders.orders, key=creation_date, reverse=True): newest
\* first, orders of one creation_date in their order in the file
RECURSIVE sorted_orders(_)
sorted_orders(s) ==
    IF s = <<>> THEN <<>>
    ELSE InsertByDate(s[Len(s)], sorted_orders(SubSeq(s, 1, Len(s) - 1)))

\* Python's s[i]: from the end for a negative i, IndexError out of range
Subscript(s, i) ==
    IF 0 <= i /\ i < Len(s) THEN Returns(s[i + 1])
    ELSE IF -Len(s) <= i /\ i < 0 THEN Returns(s[Len(s) + i + 1])
    ELSE Raise("IndexError")

\* the list comprehension of lines 642-650 over the line items; the price
\* is total_price / 100, the total in cents
RECURSIVE purchases_of(_)
purchases_of(line_items) ==
    IF line_items = <<>> THEN <<>>
    ELSE LET line_item == Head(line_items)
             rest == purchases_of(Tail(line_items))
         IN  IF line_item.title \in ExcludedTitles THEN rest
             ELSE <<Purchase(line_item.quantity, line_item.total_price,
                             line_item.title)>> \o rest

\* lines 640-650
rewe_get_purchase(all_orders, selector) ==
    LET selected == Subscript(sorted_orders(all_orders), selector - 1)
    IN  IF IsError(selected) THEN selected
        ELSE LET first == Subscript(selected.value.sub_orders, 0)
             IN  IF IsError(first) THEN first
                 ELSE Returns(purchases_of(first.value.line_items))

ReweIdle ==
    /\ SideIdle
    /\ items = <<>>
    /\ ConvertIdle
    /\ dry_run = FALSE
    /\ config_location = None
    /\ barcodes = <<>>
    /\ shopping_location = None
    /\ products = <<>>
    /\ grocy_purchases = <<>>
    /\ posts = <<>>
    /\ stock = <<>>
    /\ added = <<>>
    /\ prompts = 0
    /\ fetches = 0
    /\ calls = <<>>
    /\ ops = <<>>
    /\ ebon = <<>>

InitRewe ==
    /\ pc = "rewe"
    /\ orders \in SeqsUpTo(ReweOrders, MaxOrders)
    /\ order \in OrderSelectors
    /\ groceries = <<>>
    /\ error = NoError
    /\ ReweIdle

\* lines 640-650: Rewe.get_purchase returns the list or raises
CallRewe ==
    /\ pc = "rewe"
    /\ LET result == rewe_get_purchase(orders, order)
       IN  IF IsError(result)
           THEN Fail(result) /\ groceries' = groceries
           ELSE /\ groceries' = result.value
                /\ pc' = "rewe_done"
                /\ error' = error
    /\ UNCHANGED <<pureVars, dry_run, config_location, barcodes,
                   shopping_location, products, grocy_purchases, posts,
                   stock, added, prompts, fetches, calls, restVars>>

NextRewe == CallRewe

SpecRewe == InitRewe /\ [][NextRewe]_vars

----------------------------------------------------------------------------
(* Properties of simplify *)

SamePair(p, q) == p.name = q.name /\ p.price = q.price

RECURSIVE AmountOf(_, _, _)
AmountOf(s, n, p) ==
    IF s = <<>> THEN 0
    ELSE (IF Head(s).name = n /\ Head(s).price = p THEN Head(s).amount ELSE 0)
         + AmountOf(Tail(s), n, p)

Range(s) == {s[i] : i \in 1..Len(s)}

BagOf(s) == [r \in Range(s) |-> Cardinality({i \in 1..Len(s) : s[i] = r})]

Perms(n) == {f \in [1..n -> 1..n] : \A i, j \in 1..n : f[i] = f[j] => i = j}

Permute(s, f) == [i \in 1..Len(s) |-> s[f[i]]]

\* C1: the output of simplify contains at most one Purchase per distinct
\* (name, price) pair, also when lines of one name with different prices are
\* interleaved in the input.
C1_OnePurchasePerPair ==
    pc = "simplified" =>
        \A i, j \in 1..Len(groceries) :
            SamePair(groceries[i], groceries[j]) => i = j

\* C2: for every (name, price) pair with price >= 0 the amounts of the output
\* Purchases with that pair sum to the amounts of the input lines with that
\* pair, and no output Purchase has a negative price.
C2_AmountPreserved ==
    pc = "simplified" =>
        /\ \A n \in Names, p \in Prices :
              p >= 0 => AmountOf(groceries, n, p) = AmountOf(items, n, p)
        /\ \A i \in 1..Len(groceries) : groceries[i].price >= 0

C2_Witness ==
    /\ pc = "simplified"
    /\ Len(items) = 3
    /\ \E i, j, k \in 1..3 :
          /\ i # j
          /\ SamePair(items[i], items[j])
          /\ items[i].price = 0
          /\ items[i].amount + items[j].amount > 1
          /\ items[k].price < 0
    /\ Len(groceries) = 1

\* C3: the list returned by simplify is ordered ascending by name.
C3_SortedByName ==
    pc = "simplified" =>
        \A i \in 1..Len(groceries) - 1 :
            groceries[i].name <= groceries[i + 1].name

C3_Witness ==
    /\ pc = "simplified"
    /\ Len(items) >= 2
    /\ items[1].name > items[2].name
    /\ Len(groceries) >= 2

----------------------------------------------------------------------------
(* Properties of convert_unit *)

PairEntries(p) ==
    {i \in 1..Len(convertions) :
        /\ convertions[i].from_qu_id = from_qu_id
        /\ convertions[i].to_qu_id = to_qu_id
        /\ convertions[i].product_id = p}

FactorsAt(I) == {Returns(convertions[i].factor) : i \in I}

\* C6: convert_unit returns 1 whenever from_unit_id equals to_unit_id, for
\* every product and every conversion set; it never raises in this case.
C6_SameUnitIsOne ==
    (pc = "converted" /\ from_qu_id = to_qu_id) => factor = Returns(1)

C6_Witness ==
    /\ pc = "converted"
    /\ from_qu_id = to_qu_id
    /\ PairEntries(product_id) # {}
    /\ factor = Returns(1)

\* C7: for differing units a matching entry for the requested product wins
\* over generic entries wherever they stand in the list; a generic entry is
\* used only when no entry for the requested product matches; an entry for a
\* different product is never selected.
C7_ProductBeforeGeneric ==
    (pc = "converted" /\ from_qu_id # to_qu_id) =>
        /\ PairEntries(product_id) # {}
              => factor \in FactorsAt(PairEntries(product_id))
        /\ (PairEntries(product_id) = {} /\ PairEntries(None) # {})
              => factor \in FactorsAt(PairEntries(None))
        /\ ~IsError(factor)
              => factor \in FactorsAt(PairEntries(product_id)
                                      \cup PairEntries(None))

C7_Witness ==
    /\ pc = "converted"
    /\ from_qu_id # to_qu_id
    /\ product_id # None
    /\ Len(convertions) = 2
    /\ 1 \in PairEntries(None)
    /\ 2 \in PairEntries(product_id)
    /\ convertions[1].factor # convertions[2].factor
    /\ factor = Returns(convertions[2].factor)

\* C8: for differing units with no entry matching the pair for the product
\* or generically, convert_unit fails with a UserError naming from unit, to
\* unit and product; it never returns a default factor.
C8_NoMatchFails ==
    (/\ pc = "converted"
     /\ from_qu_id # to_qu_id
     /\ PairEntries(product_id) \cup PairEntries(None) = {})
    => factor = UserError(from_qu_id, to_qu_id, product_id)

C8_Witness ==
    /\ pc = "converted"
    /\ from_qu_id # to_qu_id
    /\ product_id # None
    /\ PairEntries(product_id) \cup PairEntries(None) = {}
    /\ \E i \in 1..Len(convertions) :
          /\ convertions[i].from_qu_id = from_qu_id
          /\ convertions[i].to_qu_id = to_qu_id
    /\ IsError(factor)

----------------------------------------------------------------------------
(* Properties of Store.import_purchase *)

AllResolved ==
    \A i \in 1..Len(groceries) : groceries[i].name \in DOMAIN barcodes

IsPrefix(s, t) == Len(s) <= Len(t) /\ s = SubSeq(t, 1, Len(s))

\* C9: the reconciliation loop exits only when every purchase name is a key
\* of the most recently fetched alias map, so nothing is submitted while a
\* name is unresolved; and when the first fetched alias map contains every
\* purchase name, the loop exits on the first check with zero prompts and
\* zero refetches.
C9_LoopExitsResolved ==
    /\ []((\/ pc \in {"get_products", "submit", "done"}
           \/ posts # <<>>
           \/ added # <<>>) => AllResolved)
    /\ [][(pc = "check" /\ fetches = 1 /\ AllResolved)
             => (pc' = "get_products" /\ prompts' = 0 /\ fetches' = 1)]_vars

C9_Witness ==
    /\ pc = "get_products"
    /\ prompts = 1
    /\ fetches = 2
    /\ \E i, j \in 1..Len(groceries) : groceries[i].name # groceries[j].name
    /\ AllResolved

\* C10: purchases are submitted one at a time in the order of the purchase
\* list; when the submission of item k fails, nothing is sent for items
\* k+1..n, the submissions of items 1..k-1 stay recorded in the catalog (no
\* compensating request) and exactly items 1..k-1 are reported as added.
C10_SequentialNoRollback ==
    /\ [](/\ IsPrefix(posts, grocy_purchases)
          /\ IsPrefix(added, groceries)
          /\ (pc = "failed" /\ posts # <<>>) =>
                /\ Len(added) = Len(posts) - 1
                /\ IsPrefix(SubSeq(grocy_purchases, 1, Len(posts) - 1), stock)
                /\ Len(stock) <= Len(posts))
    /\ [][/\ IsPrefix(posts, posts') /\ Len(posts') <= Len(posts) + 1
          /\ IsPrefix(stock, stock')
          /\ pc = "failed" => posts' = posts]_vars

C10_Witness ==
    /\ pc = "failed"
    /\ Len(grocy_purchases) = 3
    /\ Len(posts) = 2
    /\ Len(stock) = 1
    /\ added = SubSeq(groceries, 1, 1)

IsWrite(call) == call.method \in {"POST", "PUT"}

NoWriteSent == \A i \in 1..Len(calls) : ~IsWrite(calls[i])

\* C11: with dry_run set GrocyApi.purchase returns without sending a POST:
\* a dry-run import sends no write request, the catalog records nothing,
\* every step of the submission loop reports its purchase as added and none
\* fails, so a run that reaches the loop ends with every purchase reported.
C11_DryRunSendsNothing ==
    /\ [](dry_run =>
            /\ posts = <<>>
            /\ stock = <<>>
            /\ NoWriteSent
            /\ pc = "done" => added = groceries
            /\ pc = "failed" => added = <<>>)
    /\ [][(dry_run /\ pc = "submit") =>
             /\ pc' \in {"submit", "done"}
             /\ added' = Append(added, groceries[Len(added) + 1])
             /\ error' = NoError]_vars

C11_Witness ==
    /\ dry_run
    /\ pc = "done"
    /\ Len(groceries) = 3
    /\ added = groceries
    /\ posts = <<>>
    /\ calls # <<>>

\* C13: the request submitted for a purchase has product id
\* alias.product_id, amount purchase.amount * alias.amount * factor(
\* alias.qu_id, stock unit of the product, alias.product_id) and price
\* purchase.price / purchase.amount, alias being the entry for the purchase
\* name in the alias map with which the reconciliation loop exited (the map
\* does not change after the exit).
C13_RequestFormula ==
    /\ [](\A i \in 1..Len(posts) :
            LET purchase == groceries[i]
                alias == barcodes[purchase.name]
                f == convert_unit(convertions, alias.qu_id,
                                  products[alias.product_id].qu_id_stock,
                                  alias.product_id)
            IN  /\ purchase.name \in DOMAIN barcodes
                /\ ~IsError(f)
                /\ posts[i].product_id = alias.product_id
                /\ posts[i].amount = purchase.amount * alias.amount * f.value
                /\ posts[i].price.den > 0
                /\ posts[i].price.num * purchase.amount
                      = purchase.price * posts[i].price.den)
    /\ [][(pc \in {"get_products", "submit"}) => (barcodes' = barcodes)]_vars

C13_Witness ==
    /\ prompts = 1
    /\ Len(posts) = 2
    /\ groceries[1].name # groceries[2].name
    /\ \E i \in 1..2 :
          /\ barcodes[groceries[i].name] = Alias(2, 2, 2)
          /\ products[2].qu_id_stock = 1
          /\ posts[i].amount = 2 * 2 * 3
          /\ posts[i].price = [num |-> 1, den |-> 2]

\* C14: a parse failure of the receipt document aborts the import before any
\* write request is sent: a run that ends with a parse error has sent no
\* request at all, the catalog has recorded no purchase and none is reported.
C14_ParseFailureBeforeWrites ==
    (pc = "failed" /\ error = Raise("ParseFailure")) =>
        /\ NoWriteSent
        /\ calls = <<>>
        /\ posts = <<>>
        /\ stock = <<>>
        /\ added = <<>>

C14_Witness ==
    /\ pc = "failed"
    /\ error = Raise("ParseFailure")
    /\ ~dry_run
    /\ config_location # None

AfterLocation ==
    pc \in {"get_convertions", "check", "prompt", "refetch", "get_products",
            "submit", "done"}

LastCall(path) ==
    LET at == {i \in 1..Len(calls) : calls[i].path = path}
    IN  IF at = {} THEN 0 ELSE CHOOSE i \in at : \A j \in at : j <= i

\* C16: every iteration of the reconciliation loop re-fetches the unit
\* conversions too: the conversion set the factors of the prepared purchases
\* are computed with was fetched no earlier than the last alias-map fetch.
C16_ConvertionsRefetched ==
    (pc \in {"submit", "done"} /\ prompts > 0) =>
        LastCall("objects/quantity_unit_conversions")
            > LastCall("objects/product_barcodes")

\* C17: whatever the receipt source, the purchase list that reaches the
\* reconciliation loop and the submitter is aggregated: it holds no two
\* purchases with the same (name, price) and no purchase with a negative
\* price.
C17_ListIsAggregated ==
    (pc \in {"get_barcodes", "get_location", "check", "submit", "done"}) =>
        /\ \A i, j \in 1..Len(groceries) :
              SamePair(groceries[i], groceries[j]) => i = j
        /\ \A i \in 1..Len(groceries) : groceries[i].price >= 0

----------------------------------------------------------------------------
(* Properties of the GrocyApi operations *)

\* C12: with dry_run true no GrocyApi operation that writes (purchase,
\* schedule_chore, did_chore, charge_battery, set_userfields) sends a POST
\* or a PUT request.
C12_DryRunNoWrites ==
    (pc \in {"api", "failed"} /\ dry_run /\ ops # <<>>) => NoWriteSent

----------------------------------------------------------------------------
(* Properties of Ebon._get_purchases *)

\* the position of the first line from the second on that starts with
\* 'SUMME ', one past the end if there is none
Marker ==
    LET at == {i \in 2..Len(ebon) : ebon[i].kind = "summe"}
    IN  IF at = {} THEN Len(ebon) + 1
        ELSE CHOOSE i \in at : \A j \in at : i <= j

\* the positions after the first line and before the marker
Body == 2..(Marker - 1)

Rows == {i \in Body : ebon[i].kind # "empty"}

\* the k-th row in document order
Row(k) == CHOOSE i \in Rows : Cardinality({j \in Rows : j <= i}) = k

\* C18: a completed Ebon._get_purchases has yielded, in document order,
\* exactly one Purchase per non-blank line after the first line and before
\* the first line starting with 'SUMME '; the first line and the lines from
\* the marker on yield none; a line with a prefix 'Nx unit-price' yields
\* amount N and the line total as price, a line without prefix amount 1.
C18_OnePurchasePerLine ==
    pc = "parsed" =>
        /\ Len(groceries) = Cardinality(Rows)
        /\ \A k \in 1..Len(groceries) :
              LET line == ebon[Row(k)]
              IN  /\ groceries[k].name = line.name
                  /\ groceries[k].price = line.total
                  /\ line.count # None => groceries[k].amount = line.count
                  /\ line.count = None => groceries[k].amount = 1

C18_Witness ==
    /\ pc = "parsed"
    /\ Len(ebon) = 4
    /\ ebon[1].kind = "item"
    /\ ebon[2].count = 2
    /\ ebon[3].kind = "summe"
    /\ ebon[4].kind = "item"
    /\ groceries = <<Purchase(2, 2, ebon[2].name)>>

\* C19: before the total marker blank lines, whitespace-only ones included,
\* are skipped without error, and every other line that does not match the
\* item pattern is fatal: the parse fails exactly when such a line stands
\* before the marker, and a completed parse has one Purchase per item line.
C19_BlankSkippedOthersFatal ==
    pc \in {"parsed", "failed"} =>
        /\ pc = "failed" <=> \E i \in Body : ebon[i].kind = "text"
        /\ pc = "parsed" =>
              Len(groceries) = Cardinality({i \in Body : ebon[i].kind = "item"})

----------------------------------------------------------------------------
(* Properties of Rewe.get_purchase *)

\* orders[i] can stand at place n of the orders sorted by creation_date
\* descending
IsNth(i, n) ==
    /\ Cardinality({j \in 1..Len(orders) :
                      orders[j].creation_date > orders[i].creation_date}) < n
    /\ n <= Cardinality({j \in 1..Len(orders) :
                           orders[j].creation_date >= orders[i].creation_date})

\* the line items that are products, as Purchases
Kept(line_items) ==
    LET kept == SelectSeq(line_items, LAMBDA l : l.title \notin ExcludedTitles)
    IN  [k \in 1..Len(kept) |->
           Purchase(kept[k].quantity, kept[k].total_price, kept[k].title)]

\* C20: for n orders and a selector N in 1..n the imported order is the N-th
\* of the orders sorted by creationDate descending (N = 1 the newest), and
\* only the line items of its first sub-order are used.
C20_NthNewestFirstSuborder ==
    (pc \in {"rewe_done", "failed"} /\ order \in 1..Len(orders)) =>
        \E i \in 1..Len(orders) :
            /\ IsNth(i, order)
            /\ IF orders[i].sub_orders = <<>>
               THEN pc = "failed"
               ELSE /\ pc = "rewe_done"
                    /\ groceries = Kept(orders[i].sub_orders[1].line_items)

C20_Witness ==
    /\ pc = "rewe_done"
    /\ Len(orders) = 2
    /\ orders[1].creation_date < orders[2].creation_date
    /\ order = 1
    /\ Len(orders[1].sub_orders) = 1
    /\ Len(orders[2].sub_orders) = 2
    /\ Len(orders[2].sub_orders[1].line_items) = 3
    /\ Len(orders[2].sub_orders[2].line_items) = 1
    /\ groceries = <<Purchase(1, 1, 1), Purchase(2, 2, 2)>>

----------------------------------------------------------------------------
(* Properties of an import that is run again *)

Min(a, b) == IF a < b THEN a ELSE b

\* the second run of the same receipt is under way
SecondRun == recorded # <<>>

\* C21: there is no de-duplication across runs. When a run failed after
\* purchases were recorded and the same receipt is imported again against
\* the unchanged alias map, every purchase the first run recorded is sent
\* and recorded once more as soon as the second run has passed its item:
\* the catalog then holds the record of the first run and a second, equal
\* record behind the records of the first run.
C21_NoDeduplicationAcrossRuns ==
    SecondRun =>
        /\ Len(stock) >= Len(recorded)
        /\ SubSeq(stock, 1, Len(recorded)) = recorded
        /\ \A j \in 1..Min(Len(added), Len(recorded)) :
              /\ Len(stock) >= Len(recorded) + j
              /\ Len(posts) >= j
              /\ posts[j] = recorded[j]
              /\ stock[Len(recorded) + j] = recorded[j]

\* the first run recorded item 1 and failed at item 2, the second run
\* recorded both items
C21_Witness ==
    /\ SecondRun
    /\ pc = "done"
    /\ Len(recorded) = 1
    /\ Len(groceries) = 2
    /\ Len(stock) = 3
    /\ stock[1] = stock[2]

\* every name of the receipt has an alias in the catalog
FullyAliased ==
    \A i \in 1..Len(file.lines) : file.lines[i].name \in DOMAIN catalog.barcodes

\* the phase behind the loop: the requests are prepared and submitted, or
\* their preparation fails
BehindLoop == pc \in {"get_products", "submit", "done", "failed"}

AliasFetches ==
    Cardinality({i \in 1..Len(calls) :
                    calls[i] = Call("GET", "objects/product_barcodes")})

\* C23: in the reconciliation loop a check that finds an unresolved name is
\* followed by exactly one prompt and then exactly one refetch of the alias
\* map before the next check: at every check, at the prompt and behind the
\* loop the alias map has been fetched once more than the operator was
\* prompted, between the prompt and its refetch as often; and the check after
\* a prompt uses the alias map the catalog held after the prompt was
\* acknowledged, the refetch being the last request made.
C23_OnePromptOneRefetch ==
    /\ pc \in {"check", "prompt", "get_products", "submit", "done"}
          => (AliasFetches = prompts + 1 /\ fetches = prompts + 1)
    /\ pc = "refetch" => (AliasFetches = prompts /\ fetches = prompts)
    /\ (pc = "check" /\ prompts > 0)
          => /\ barcodes = catalog.barcodes
             /\ calls[Len(calls)] = Call("GET", "objects/product_barcodes")

\* the check after the prompt sees the alias the operator added meanwhile
C23_Witness ==
    /\ pc = "check"
    /\ prompts = 1
    /\ AliasFetches = 2
    /\ barcodes = FullAliases
    /\ unknown_items(groceries, <<>>) # <<>>
    /\ unknown_items(groceries, barcodes) = <<>>

----------------------------------------------------------------------------
(* Properties of Netto.get_purchase *)

\* the separators that open a group of two or more cells
LongGroups ==
    {i \in 1..Len(cells) :
        /\ cells[i].isspace
        /\ i + 2 <= Len(cells)
        /\ ~cells[i + 1].isspace
        /\ ~cells[i + 2].isspace}

\* C24: for every sequence of kept cells, one whose first cell is no
\* separator included, the grouping ends without an IndexError, and when the
\* cells parse, the groups of two or more cells yield one purchase line each
\* and the other groups none.
C24_GroupedBySeparators ==
    pc # "netto" =>
        /\ error # Raise("IndexError")
        /\ pc = "netto_done" => Len(items) = Cardinality(LongGroups)

----------------------------------------------------------------------------
(* Properties of get_shopping_location_id *)

\* the same letter, whatever its case
SameLetter(a, b) == a % 10 = b % 10

\* the name starts with the store identifier, compared case-insensitively
StartsWithStore(name) ==
    /\ Len(name) >= Len(args_store)
    /\ \A k \in 1..Len(args_store) : SameLetter(name[k], args_store[k])

\* a comes before b in case-insensitive order
RECURSIVE Before(_, _)
Before(a, b) ==
    /\ b # <<>>
    /\ \/ a = <<>>
       \/ Head(a) % 10 < Head(b) % 10
       \/ SameLetter(Head(a), Head(b)) /\ Before(Tail(a), Tail(b))

Matching == {i \in 1..Len(locations) : StartsWithStore(locations[i].name)}

\* C25: the shopping location id of an import is the configured
\* shopping_location_id when the store has one; otherwise it is the id of a
\* shopping location of the catalog whose name starts with the store
\* identifier, compared case-insensitively, and no matching location comes
\* before it in case-insensitive name order; when no location matches the
\* run fails with a UserError and nothing has been sent for recording.
C25_ShoppingLocationResolved ==
    pc # "location" =>
        IF config_location # None
        THEN pc = "located" /\ shopping_location = config_location
        ELSE IF Matching = {}
        THEN pc = "failed" /\ error = Raise("UserError") /\ posts = <<>>
        ELSE /\ pc = "located"
             /\ \E i \in Matching :
                   /\ shopping_location = locations[i].id
                   /\ \A j \in Matching :
                         ~Before(locations[j].name, locations[i].name)

\* 'no' is listed before 'N' and both match the store 'n': 'N' is taken
C25_Witness ==
    /\ pc = "located"
    /\ config_location = None
    /\ args_store = <<11>>
    /\ Len(locations) = 2
    /\ locations[1].name = <<11, 12>>
    /\ locations[2].name = <<1>>
    /\ shopping_location = locations[2].id

----------------------------------------------------------------------------
(* Properties of the preparation loop of import_purchase *)

\* the call of item i as the fetched catalog data prepare it
Prepared(i) ==
    prepare(groceries[i], barcodes, products, convertions, shopping_location)

\* C26: the requests of all purchases are prepared before the first is sent.
\* Once a request has been sent, a purchase recorded or an item reported,
\* every purchase of the list, the last included, has its request prepared:
\* its alias, its product and its conversion factor were found and its
\* amount is not 0. So a run in which the preparation of any purchase fails
\* ends with nothing sent and nothing recorded.
C26_AllPreparedBeforeFirstSent ==
    /\ (posts # <<>> \/ stock # <<>> \/ added # <<>>) =>
          /\ Len(grocy_purchases) = Len(groceries)
          /\ \A i \in 1..Len(groceries) :
                Prepared(i) = Returns(grocy_purchases[i])
    /\ (pc = "failed" /\ \E i \in 1..Len(groceries) : IsError(Prepared(i)))
          => (posts = <<>> /\ stock = <<>> /\ added = <<>>)

\* the preparation of the third and last purchase failed on its amount 0
C26_Witness ==
    /\ pc = "failed"
    /\ error = Raise("ZeroDivisionError")
    /\ Len(groceries) = 3
    /\ ~IsError(Prepared(1))
    /\ ~IsError(Prepared(2))
    /\ IsError(Prepared(3))
    /\ ~dry_run
    /\ stock = <<>>

\* C27: for n orders an order selector outside 1..n (0, negative or above
\* n) never imports an order: the run fails without selecting one.
C27_SelectorOutOfRangeFails ==
    (pc # "rewe" /\ order \notin 1..Len(orders)) => pc = "failed"

----------------------------------------------------------------------------
(* Properties of the chore commands *)

Wanted(chore_id) ==
    LET c == chore_data[chore_id]
        requested == chore_args.at
    IN  IF "rescheduled_date" \notin DOMAIN c THEN requested
        ELSE IF c.rescheduled_date = None THEN requested
        ELSE CASE chore_args.keep = "new" -> requested
               [] chore_args.keep = "old" -> c.rescheduled_date
               [] chore_args.keep = "earlier" ->
                     Min(c.rescheduled_date, requested)
               [] chore_args.keep = "later" ->
                     IF c.rescheduled_date > requested
                     THEN c.rescheduled_date ELSE requested

\* C29: in 'chore schedule' with several ids the date each chore is
\* scheduled to depends only on the requested time and the chore's own
\* previous rescheduled date under the --keep policy; the previous date of a
\* chore processed earlier never becomes the date of a later chore.
C29_OwnPreviousDateOnly ==
    pc \in {"chore_schedule", "schedule_done", "failed"} =>
        \A k \in 1..Len(chore_calls) :
            chore_calls[k].date_time = Wanted(chore_calls[k].chore_id)

----------------------------------------------------------------------------
(* Properties of todotxt_chore_pull *)

\* some line references a chore and is marked done
HasDoneChore(lines) ==
    \E i \in 1..Len(lines) : lines[i].chore # None /\ lines[i].done

\* the lines without a chore reference, in their order
OtherLines(lines) == SelectSeq(lines, LAMBDA l : l.chore = None)

\* C30: 'pull' aborts with a user error when a line that references a chore
\* is marked done, and then the todo file is unchanged, no backup is written
\* and no request is sent; otherwise the backup copy is written before the
\* todo file is overwritten (the backup is a copy of the file, made while
\* the file is untouched, and the file changes only once the backup exists)
\* and every line without a chore reference is kept in its original order.
C30_PullAbortsOrBacksUp ==
    /\ [][(pc = "pull" /\ HasDoneChore(todo_file)) =>
             /\ pc' = "failed"
             /\ error' = Raise("UserError")
             /\ todo_file' = todo_file
             /\ backup' = backup
             /\ calls' = calls]_vars
    /\ [][(pc = "pull" /\ ~HasDoneChore(todo_file)) => (pc' # "failed")]_vars
    /\ [][(backup' # backup) =>
             /\ backup' = [exists |-> TRUE, lines |-> todo_file]
             /\ todo_file' = todo_file
             /\ pc = "pull_backup"]_vars
    /\ [][(todo_file' # todo_file) =>
             /\ pc \in {"pull_open", "pull_show"}
             /\ backup.exists
             /\ backup' = backup
             /\ IsPrefix(OtherLines(backup.lines), todo_file')]_vars
    /\ [](pc \in {"pull_show", "pull_done"} =>
             /\ backup.exists
             /\ IsPrefix(OtherLines(backup.lines), todo_file)
             /\ \A i \in (Len(OtherLines(backup.lines)) + 1)..Len(todo_file) :
                   todo_file[i].chore # None)

\* two lines without a chore reference around an open chore were kept in
\* their order and the chore of the catalog was written behind them
C30_Witness ==
    /\ pc = "pull_done"
    /\ backup.exists
    /\ Len(backup.lines) = 3
    /\ backup.lines[2].chore # None
    /\ backup.lines[1].text # backup.lines[3].text
    /\ todo_file = <<backup.lines[1], backup.lines[3], TodoLine(1, FALSE, 1)>>

====
